---- MODULE Spec2Model ----
(***************************************************************************)
(* GenAI-Stack workflow builder: the in-memory graph kept by the           *)
(* useWorkflow hook, the WorkflowCanvas bridge to the React Flow surface,  *)
(* and the structural validator validateWorkflowConnections.               *)
(*                                                                         *)
(* JavaScript objects are modelled as TLA+ records whose DOMAIN is the set *)
(* of keys the object carries, arrays as sequences, `null` as the empty    *)
(* sequence where a value is optional.                                     *)
(***************************************************************************)
EXTENDS Integers, Sequences, FiniteSets, TLC

VARIABLES
    nodes,         \* useWorkflow: useState<WorkflowNode[]>
    edges,         \* useWorkflow: useState<WorkflowEdge[]>
    selectedNode,  \* useWorkflow: useState<WorkflowNode | null>; <<>> is null
    reactNodes,    \* WorkflowCanvas: useNodesState
    reactEdges,    \* WorkflowCanvas: useEdgesState
    edgesShared,   \* `edges` and `reactEdges` are one and the same array object
    lastOp,        \* the name of the operation of the last step
    thrown,        \* the exception the last step ended with, "none" if it returned
    vnodes,        \* validator input: nodes
    vedges,        \* validator input: edges
    vresult,       \* validator outcome, <<>> before the call
    rendered,      \* the {nodes, edges} snapshots rendered in the last step, in order
    inflight,      \* save requests sent and not yet settled
    panelNodeData, \* ConfigurationPanel: nodeData, useState(node.data); <<>> while no panel is mounted
    lookup         \* the last catalog lookup and what it returned, <<>> before one

storeVars == <<nodes, edges, selectedNode>>
canvasVars == <<reactNodes, reactEdges, edgesShared>>
vvars == <<vnodes, vedges, vresult>>
vars == <<nodes, edges, selectedNode, reactNodes, reactEdges, edgesShared,
          lastOp, thrown, vnodes, vedges, vresult, rendered, inflight,
          panelNodeData, lookup>>

-----------------------------------------------------------------------------
(* Bounds and input sets *)

MaxNodes == 2
MaxEdges == 2

\* ids as createNode and onDrop make them: `${type}-${Date.now()}-${random}`
NodeIds == {"llm-1", "output-1"}
EdgeIds == {"e1", "e2"}
NodeTypes == {"userQuery", "llm", "knowledgeBase", "output"}
Positions == {0, 1}
\* the node components declare their handles without an id: the handle of a
\* connection is null
NoHandle == "null"

-----------------------------------------------------------------------------
(* Generic helpers for arrays and object spread *)

Range(s) == {s[i] : i \in DOMAIN s}

\* { ...a, ...b }
Spread(a, b) ==
    [k \in (DOMAIN a) \cup (DOMAIN b) |-> IF k \in DOMAIN b THEN b[k] ELSE a[k]]

\* arr.map(f)
Map(s, F(_)) == [i \in DOMAIN s |-> F(s[i])]

\* arr.filter(p)
Filter(s, P(_)) == SelectSeq(s, P)

Ids(ns) == {ns[i].id : i \in DOMAIN ns}

\* arr.find(n => n.id === id) as an optional value
FindById(ns, id) ==
    IF \E i \in DOMAIN ns : ns[i].id = id
    THEN <<ns[CHOOSE i \in DOMAIN ns :
                /\ ns[i].id = id
                /\ \A j \in DOMAIN ns : ns[j].id = id => i <= j]>>
    ELSE <<>>

-----------------------------------------------------------------------------
(* NodeCatalog *)

getNodeDisplayName(type) ==
    CASE type = "userQuery" -> "User Query"
      [] type = "llm" -> "LLM (OpenAI)"
      [] type = "knowledgeBase" -> "Knowledge Base"
      [] type = "output" -> "Output"
      [] OTHER -> type

\* the defaults, reduced to the keys the model follows
getNodeDefaults(type) ==
    CASE type = "knowledgeBase" ->
            [label |-> "Knowledge Base", description |-> "Document knowledge source"]
      [] type = "userQuery" ->
            [label |-> "User Query", description |-> "Entry point for queries"]
      [] type = "llm" ->
            [label |-> "LLM (OpenAI)", description |-> "Language model processing"]
      [] type = "output" ->
            [label |-> "Output", description |-> "Final response output"]
      [] OTHER -> [label |-> "Unknown Node", description |-> "Unknown node type"]

\* a table in which an llm node may also feed an llm node
validConnections_LlmToLlm(sourceType) ==
    CASE sourceType = "userQuery" -> {"llm", "knowledgeBase", "output"}
      [] sourceType = "knowledgeBase" -> {"llm", "output"}
      [] sourceType = "llm" -> {"llm", "output"}
      [] OTHER -> {}

\* validConnections[sourceType], {} standing for undefined
validConnections(sourceType) ==
    CASE sourceType = "userQuery" -> {"llm", "knowledgeBase", "output"}
      [] sourceType = "knowledgeBase" -> {"llm", "output"}
      [] sourceType = "llm" -> {"output"}
      [] sourceType = "output" -> {}
      [] OTHER -> {}

isValidConnection(sourceType, targetType) ==
    targetType \in validConnections(sourceType)

\* a variant that lets an output node feed an llm node
validateNodeConnection_OutputToLlm(sourceType, targetType) ==
    \/ isValidConnection(sourceType, targetType)
    \/ (sourceType = "output" /\ targetType = "llm")

\* useNodes.validateNodeConnection, with the table it declares itself
validateNodeConnection(sourceType, targetType) ==
    LET table == [userQuery |-> {"llm", "knowledgeBase", "output"},
                  knowledgeBase |-> {"llm", "output"},
                  llm |-> {"output"},
                  output |-> {}]
    IN  IF sourceType \in DOMAIN table THEN targetType \in table[sourceType] ELSE FALSE

-----------------------------------------------------------------------------
(* Values the operations are exercised with *)

MkNode(id, type, position, data) ==
    [id |-> id, type |-> type, position |-> position, data |-> data]

MkEdge(id, source, target, sourceHandle, targetHandle) ==
    [id |-> id, source |-> source, target |-> target,
     sourceHandle |-> sourceHandle, targetHandle |-> targetHandle]

TypeOfId(id) == IF id = "llm-1" THEN "llm" ELSE "output"

\* nodes a caller hands to addNode
NewNodes == {MkNode(id, TypeOfId(id), 0, getNodeDefaults(TypeOfId(id))) : id \in NodeIds}

\* edges a caller hands to addEdge
NewEdges ==
    {MkEdge(id, s, t, NoHandle, NoHandle) : id \in EdgeIds, s \in NodeIds, t \in NodeIds}

\* Partial<WorkflowNode> values a caller hands to updateNode / handleNodeUpdate
Patches ==
    { [data |-> [label |-> "X"]] }

\* workflows the persistence gateway answers a fetch with
LoadableWorkflows ==
    { [nodes |-> <<>>, edges |-> <<>>],
      [nodes |-> <<MkNode("llm-1", "llm", 0, getNodeDefaults("llm")),
                   MkNode("output-1", "output", 0, getNodeDefaults("output"))>>,
       edges |-> <<MkEdge("e1", "llm-1", "output-1", NoHandle, NoHandle)>>],
      [nodes |-> <<MkNode("output-1", "output", 0, getNodeDefaults("output")),
                   MkNode("llm-1", "llm", 0, getNodeDefaults("llm"))>>,
       edges |-> <<MkEdge("e2", "output-1", "llm-1", NoHandle, NoHandle)>>] }

-----------------------------------------------------------------------------
(* useWorkflow: the state updaters of the graph operations *)

\* addNode: prev => [...prev, node]
addNodeUpdater(prev, node) == Append(prev, node)

\* a variant that merges a data patch into the data record key by key
updateNodeUpdater_DeepData(prev, nodeId, updates) ==
    [i \in DOMAIN prev |->
        IF prev[i].id = nodeId
        THEN IF "data" \in DOMAIN updates
             THEN Spread(Spread(prev[i], updates),
                         [data |-> Spread(prev[i].data, updates.data)])
             ELSE Spread(prev[i], updates)
        ELSE prev[i]]

\* updateNode: prev => prev.map(node => node.id === nodeId ? {...node, ...updates} : node)
updateNodeUpdater(prev, nodeId, updates) ==
    [i \in DOMAIN prev |->
        IF prev[i].id = nodeId THEN Spread(prev[i], updates) ELSE prev[i]]

\* removeNode: prev => prev.filter(node => node.id !== nodeId)
removeNodeNodesUpdater(prev, nodeId) ==
    LET keep(n) == n.id # nodeId IN SelectSeq(prev, keep)

\* a variant that forgets the edges arriving at the node
removeNodeEdgesUpdater_SourceOnly(prev, nodeId) ==
    LET keep(e) == e.source # nodeId IN SelectSeq(prev, keep)

\* removeNode: prev => prev.filter(edge => edge.source !== nodeId && edge.target !== nodeId)
removeNodeEdgesUpdater(prev, nodeId) ==
    LET keep(e) == e.source # nodeId /\ e.target # nodeId IN SelectSeq(prev, keep)

\* removeNode: if (selectedNode?.id === nodeId) setSelectedNode(null)
removeNodeSelection(sel, nodeId) ==
    IF sel # <<>> /\ sel[1].id = nodeId THEN <<>> ELSE sel

\* ConfigurationPanel: useState(node?.data) at mount and the [node] effect
\* setNodeData(node.data); the panel is mounted only while a node is selected
\* and keeps its local data while the selection stays as it is
panelData(local, prevSel, sel) ==
    IF sel = <<>> THEN <<>>
    ELSE IF sel = prevSel THEN local
    ELSE sel[1].data

\* addEdge: prev => [...prev, edge]
addEdgeUpdater(prev, edge) == Append(prev, edge)

\* removeEdge: prev => prev.filter(edge => edge.id !== edgeId)
removeEdgeUpdater(prev, edgeId) ==
    LET keep(e) == e.id # edgeId IN SelectSeq(prev, keep)

-----------------------------------------------------------------------------
(* Rendering.  The root is made with ReactDOM.createRoot: the state updates *)
(* of one turn (a handler, a query or mutation callback) are batched into   *)
(* one render, which shows the values after all of them.                    *)

\* a root that renders after each state update of the turn
batchedRender_PerUpdate(prevNodes, prevEdges, nextNodes, nextEdges) ==
    <<[nodes |-> nextNodes, edges |-> prevEdges],
      [nodes |-> nextNodes, edges |-> nextEdges]>>

\* the snapshots rendered in a turn that takes nodes and edges from the
\* prev values to the next ones
batchedRender(prevNodes, prevEdges, nextNodes, nextEdges) ==
    <<[nodes |-> nextNodes, edges |-> nextEdges]>>

\* the values the handlers made by the latest render close over
Rendered == rendered[Len(rendered)]

-----------------------------------------------------------------------------
(* Steps.  A step is one event turn: the handler, the single render React   *)
(* 18 batches its state updates into, and the effects of that commit.  The  *)
(* canvas effects setReactNodes(nodes) / setReactEdges(edges) run when the  *)
(* `nodes` / `edges` prop changed identity in the turn.                     *)

addNode(node) ==
    /\ Len(nodes) < MaxNodes
    /\ nodes' = addNodeUpdater(nodes, node)
    /\ reactNodes' = nodes'
    /\ lastOp' = "addNode"
    /\ thrown' = "none"
    /\ UNCHANGED <<edges, selectedNode, reactEdges, edgesShared, vvars, inflight, panelNodeData, lookup>>
    /\ rendered' = batchedRender(nodes, edges, nodes', edges')

updateNode(nodeId, updates) ==
    /\ nodes' = updateNodeUpdater(nodes, nodeId, updates)
    /\ reactNodes' = nodes'
    /\ lastOp' = "updateNode"
    /\ thrown' = "none"
    /\ UNCHANGED <<edges, selectedNode, reactEdges, edgesShared, vvars, inflight, panelNodeData, lookup>>
    /\ rendered' = batchedRender(nodes, edges, nodes', edges')

removeNode(nodeId) ==
    /\ nodes' = removeNodeNodesUpdater(nodes, nodeId)
    /\ edges' = removeNodeEdgesUpdater(edges, nodeId)
    /\ selectedNode' = removeNodeSelection(selectedNode, nodeId)
    /\ panelNodeData' = panelData(panelNodeData, selectedNode, selectedNode')
    /\ reactNodes' = nodes'
    /\ reactEdges' = edges'
    /\ edgesShared' = TRUE
    /\ lastOp' = "removeNode"
    /\ thrown' = "none"
    /\ UNCHANGED <<vvars, inflight, lookup>>
    /\ rendered' = batchedRender(nodes, edges, nodes', edges')

addEdge(edge) ==
    /\ Len(edges) < MaxEdges
    /\ edges' = addEdgeUpdater(edges, edge)
    /\ reactEdges' = edges'
    /\ edgesShared' = TRUE
    /\ lastOp' = "addEdge"
    /\ thrown' = "none"
    /\ UNCHANGED <<nodes, selectedNode, reactNodes, vvars, inflight, panelNodeData, lookup>>
    /\ rendered' = batchedRender(nodes, edges, nodes', edges')

removeEdge(edgeId) ==
    /\ edges' = removeEdgeUpdater(edges, edgeId)
    /\ reactEdges' = edges'
    /\ edgesShared' = TRUE
    /\ lastOp' = "removeEdge"
    /\ thrown' = "none"
    /\ UNCHANGED <<nodes, selectedNode, reactNodes, vvars, inflight, panelNodeData, lookup>>
    /\ rendered' = batchedRender(nodes, edges, nodes', edges')

\* setSelectedNode as the hook exports it
setSelectedNode(sel) ==
    /\ selectedNode' = sel
    /\ panelNodeData' = panelData(panelNodeData, selectedNode, selectedNode')
    /\ lastOp' = "setSelectedNode"
    /\ thrown' = "none"
    /\ UNCHANGED <<nodes, edges, canvasVars, vvars, inflight, lookup>>
    /\ rendered' = batchedRender(nodes, edges, nodes', edges')

\* a variant of the load that takes the nodes and leaves the edges out
loadWorkflow_DropEdges(workflow) ==
    /\ nodes' = workflow.nodes
    /\ edges' = <<>>
    /\ reactNodes' = nodes'
    /\ reactEdges' = edges'
    /\ edgesShared' = TRUE
    /\ lastOp' = "loadWorkflow"
    /\ thrown' = "none"
    /\ UNCHANGED <<selectedNode, vvars, inflight, panelNodeData, lookup>>
    /\ rendered' = batchedRender(nodes, edges, nodes', edges')

\* useQuery(['workflow', workflowId]).onSuccess
loadWorkflow(workflow) ==
    /\ nodes' = workflow.nodes
    /\ edges' = workflow.edges
    /\ reactNodes' = nodes'
    /\ reactEdges' = edges'
    /\ edgesShared' = TRUE
    /\ lastOp' = "loadWorkflow"
    /\ thrown' = "none"
    /\ UNCHANGED <<selectedNode, vvars, inflight, panelNodeData, lookup>>
    /\ rendered' = batchedRender(nodes, edges, nodes', edges')

\* App.handleNodeUpdate: setNodes(nodes.map(node => node.id === nodeId ? {...node, ...updates} : node))
handleNodeUpdate(nodeId, updates) ==
    /\ nodes' = updateNodeUpdater(nodes, nodeId, updates)
    /\ reactNodes' = nodes'
    /\ lastOp' = "handleNodeUpdate"
    /\ thrown' = "none"
    /\ UNCHANGED <<edges, selectedNode, reactEdges, edgesShared, vvars, inflight, panelNodeData, lookup>>
    /\ rendered' = batchedRender(nodes, edges, nodes', edges')

-----------------------------------------------------------------------------
(* WorkflowCanvas: gestures on the React Flow surface *)

\* connectionExists of @xyflow/react, as addEdge uses it
connectionExists(edge, es) ==
    \E i \in DOMAIN es :
        /\ es[i].source = edge.source
        /\ es[i].target = edge.target
        /\ es[i].sourceHandle = edge.sourceHandle
        /\ es[i].targetHandle = edge.targetHandle

\* addEdge of @xyflow/react as onConnect calls it: the same array when the
\* connection exists, a new array with the edge appended otherwise
flowAddEdge(edge, es) ==
    IF connectionExists(edge, es) THEN es ELSE Append(es, edge)

\* id: `edge-${params.source}-${params.target}`
connectEdgeId(source, target) == "edge-" \o source \o "-" \o target

\* a variant of onConnect that drops a connection the types do not allow
onConnect_Rejecting(source, target) ==
    LET newEdge == MkEdge(connectEdgeId(source, target), source, target,
                          NoHandle, NoHandle)
        allowed == isValidConnection(FindById(reactNodes, source)[1].type,
                                     FindById(reactNodes, target)[1].type)
        updatedEdges == IF allowed THEN flowAddEdge(newEdge, reactEdges) ELSE reactEdges
    IN  /\ source \in Ids(reactNodes)
        /\ target \in Ids(reactNodes)
        /\ Len(updatedEdges) <= MaxEdges
        /\ reactEdges' = updatedEdges
        /\ edges' = updatedEdges
        /\ edgesShared' = TRUE
        /\ lastOp' = "onConnect"
        /\ thrown' = "none"
        /\ UNCHANGED <<nodes, selectedNode, reactNodes, vvars, inflight, panelNodeData, lookup>>
        /\ rendered' = batchedRender(nodes, edges, nodes', edges')

\* setReactEdges(updatedEdges); onEdgesChange(updatedEdges).  When the
\* connection exists updatedEdges is reactEdges itself; the store takes it
\* unless it already holds that very array.
onConnect(source, target) ==
    LET newEdge == MkEdge(connectEdgeId(source, target), source, target,
                          NoHandle, NoHandle)
        updatedEdges == flowAddEdge(newEdge, reactEdges)
    IN  /\ source \in Ids(reactNodes)
        /\ target \in Ids(reactNodes)
        /\ Len(updatedEdges) <= MaxEdges
        /\ reactEdges' = updatedEdges
        /\ edges' = updatedEdges
        /\ edgesShared' = TRUE
        /\ lastOp' = "onConnect"
        /\ thrown' = "none"
        /\ UNCHANGED <<nodes, selectedNode, reactNodes, vvars, inflight, panelNodeData, lookup>>
        /\ rendered' = batchedRender(nodes, edges, nodes', edges')

\* drag payloads of the component library: JSON of {type, name, icon, data}
DropPayload(type) ==
    [type |-> type, name |-> getNodeDisplayName(type), data |-> getNodeDefaults(type)]

\* onDrop with no 'application/json' data: if (!data) return
onDropNoData ==
    /\ lastOp' = "onDropNoData"
    /\ thrown' = "none"
    /\ UNCHANGED <<storeVars, canvasVars, vvars, inflight, panelNodeData, lookup>>
    /\ rendered' = batchedRender(nodes, edges, nodes', edges')

\* onDrop with a payload; the id joins the type, Date.now() and a random
\* suffix, so it differs from every id made at another time
onDrop(id, position) ==
    LET nodeData == DropPayload(TypeOfId(id))
        newNode == MkNode(id, nodeData.type, position,
                          Spread(nodeData.data, [label |-> nodeData.name]))
        updatedNodes == Append(reactNodes, newNode)
    IN  /\ id \notin Ids(reactNodes) \cup Ids(nodes)
        /\ Len(updatedNodes) <= MaxNodes
        /\ reactNodes' = updatedNodes
        /\ nodes' = updatedNodes
        /\ lastOp' = "onDrop"
        /\ thrown' = "none"
        /\ UNCHANGED <<edges, selectedNode, reactEdges, edgesShared, vvars, inflight, panelNodeData, lookup>>
        /\ rendered' = batchedRender(nodes, edges, nodes', edges')

\* 'application/json' data that did not come from the component library:
\* text that is no JSON, and JSON of an object without type, name and data
ForeignPayloads == {"{oops", "{}"}

\* JSON.parse raises a SyntaxError on text that is no JSON
JSONparseThrows(data) == data = "{oops"

\* JSON.parse where it returns: the object, as the record of its keys
JSONparse(data) == IF data = "{}" THEN <<>> ELSE [type |-> data]

\* obj.key: undefined for a key the object lacks
Get(obj, key) == IF key \in DOMAIN obj THEN obj[key] ELSE "undefined"

\* onDrop with 'application/json' data of another origin
onDropForeign(data, position) ==
    LET parsed == JSONparse(data)
        newNode == MkNode(Get(parsed, "type") \o "-1", Get(parsed, "type"), position,
                          [label |-> Get(parsed, "name")])
        updatedNodes == Append(reactNodes, newNode)
    IN  /\ lastOp' = "onDropForeign"
        /\ IF JSONparseThrows(data)
           THEN /\ thrown' = "SyntaxError"
                /\ UNCHANGED <<nodes, reactNodes>>
           ELSE /\ newNode.id \notin Ids(reactNodes) \cup Ids(nodes)
                /\ Len(updatedNodes) <= MaxNodes
                /\ thrown' = "none"
                /\ reactNodes' = updatedNodes
                /\ nodes' = updatedNodes
        /\ UNCHANGED <<edges, selectedNode, reactEdges, edgesShared, vvars, inflight,
                       panelNodeData, lookup>>
        /\ rendered' = batchedRender(nodes, edges, nodes', edges')

\* a variant of the click that adds the node to the nodes selected before
onNodeClick_Additive(id) ==
    /\ id \in Ids(reactNodes)
    /\ selectedNode' = selectedNode \o FindById(reactNodes, id)
    /\ panelNodeData' = panelData(panelNodeData, selectedNode, selectedNode')
    /\ lastOp' = "onNodeClick"
    /\ thrown' = "none"
    /\ UNCHANGED <<nodes, edges, canvasVars, vvars, inflight, lookup>>
    /\ rendered' = batchedRender(nodes, edges, nodes', edges')

onNodeClick(id) ==
    /\ id \in Ids(reactNodes)
    /\ selectedNode' = FindById(reactNodes, id)
    /\ panelNodeData' = panelData(panelNodeData, selectedNode, selectedNode')
    /\ lastOp' = "onNodeClick"
    /\ thrown' = "none"
    /\ UNCHANGED <<nodes, edges, canvasVars, vvars, inflight, lookup>>
    /\ rendered' = batchedRender(nodes, edges, nodes', edges')

onPaneClick ==
    /\ selectedNode' = <<>>
    /\ panelNodeData' = panelData(panelNodeData, selectedNode, selectedNode')
    /\ lastOp' = "onPaneClick"
    /\ thrown' = "none"
    /\ UNCHANGED <<nodes, edges, canvasVars, vvars, inflight, lookup>>
    /\ rendered' = batchedRender(nodes, edges, nodes', edges')

\* the close button of the ConfigurationPanel: onClose={() => setSelectedNode(null)}
onClose ==
    /\ selectedNode # <<>>
    /\ selectedNode' = <<>>
    /\ panelNodeData' = panelData(panelNodeData, selectedNode, selectedNode')
    /\ lastOp' = "onClose"
    /\ thrown' = "none"
    /\ UNCHANGED <<nodes, edges, canvasVars, vvars, inflight, lookup>>
    /\ rendered' = batchedRender(nodes, edges, nodes', edges')

\* applyNodeChanges of @xyflow/react for one position or remove change
applyNodeChange(change, ns) ==
    IF change.type = "remove"
    THEN LET keep(n) == n.id # change.id IN SelectSeq(ns, keep)
    ELSE [i \in DOMAIN ns |->
            IF ns[i].id = change.id
            THEN Spread(ns[i], [position |-> change.position])
            ELSE ns[i]]

\* applyEdgeChanges of @xyflow/react for one remove change
applyEdgeChange(change, es) ==
    LET keep(e) == e.id # change.id IN SelectSeq(es, keep)

NodeChanges ==
    {[type |-> "position", id |-> id, position |-> p] : id \in NodeIds, p \in Positions}
    \cup {[type |-> "remove", id |-> id] : id \in NodeIds}

\* the effects of WorkflowCanvas: setReactNodes(nodes) / setReactEdges(edges)
\* run after a commit in which the prop changed identity; otherwise the
\* surface keeps what its own handler set
syncEffect(propChanged, prop, surface) == IF propChanged THEN prop ELSE surface

\* what handleNodesChange hands to onNodesChange: a copy of reactNodes as the
\* render that made the handler saw it, not the changed array
nodesHandedToStore(change, ns) == ns

\* handleNodesChange: onReactNodesChange(changes) changes the surface,
\* onNodesChange(copy) replaces the store's array by a new one, and the
\* [nodes] effect of the commit runs
handleNodesChange(change) ==
    /\ change.id \in Ids(reactNodes)
    /\ nodes' = nodesHandedToStore(change, reactNodes)
    /\ reactNodes' = syncEffect(TRUE, nodes', applyNodeChange(change, reactNodes))
    /\ lastOp' = "handleNodesChange"
    /\ thrown' = "none"
    /\ UNCHANGED <<edges, selectedNode, reactEdges, edgesShared, vvars, inflight, panelNodeData, lookup>>
    /\ rendered' = batchedRender(nodes, edges, nodes', edges')

\* handleEdgesChange: onReactEdgesChange(changes) changes the surface,
\* onEdgesChange(reactEdges) hands the store the array this render saw.  When
\* the store holds that very array React drops the update and no effect runs.
handleEdgesChange(change) ==
    /\ \E i \in DOMAIN reactEdges : reactEdges[i].id = change.id
    /\ edges' = reactEdges
    /\ reactEdges' = syncEffect(~edgesShared, edges', applyEdgeChange(change, reactEdges))
    /\ edgesShared' = ~edgesShared
    /\ lastOp' = "handleEdgesChange"
    /\ thrown' = "none"
    /\ UNCHANGED <<nodes, selectedNode, reactNodes, vvars, inflight, panelNodeData, lookup>>
    /\ rendered' = batchedRender(nodes, edges, nodes', edges')

-----------------------------------------------------------------------------
(* The editor as App wires it: useWorkflow + App + WorkflowCanvas *)

Init ==
    /\ nodes = <<>>
    /\ edges = <<>>
    /\ selectedNode = <<>>
    /\ reactNodes = <<>>
    /\ reactEdges = <<>>
    /\ edgesShared = TRUE
    /\ lastOp = "init"
    /\ thrown = "none"
    /\ vnodes = <<>>
    /\ vedges = <<>>
    /\ vresult = <<>>
    /\ rendered = batchedRender(<<>>, <<>>, <<>>, <<>>)
    /\ inflight = <<>>
    /\ panelNodeData = <<>>
    /\ lookup = <<>>

Next ==
    \/ \E w \in LoadableWorkflows : loadWorkflow(w)
    \/ \E id \in NodeIds, u \in Patches : handleNodeUpdate(id, u)
    \/ \E s \in NodeIds, t \in NodeIds : onConnect(s, t)
    \/ onDropNoData
    \/ \E id \in NodeIds, p \in Positions : onDrop(id, p)
    \/ \E id \in NodeIds : onNodeClick(id)
    \/ onPaneClick
    \/ onClose
    \/ \E c \in NodeChanges : handleNodesChange(c)
    \/ \E id \in EdgeIds \cup {connectEdgeId(s, t) : s \in NodeIds, t \in NodeIds} :
            handleEdgesChange([type |-> "remove", id |-> id])

Spec == Init /\ [][Next]_vars

-----------------------------------------------------------------------------
(* Drops and clicks on the canvas, drops of foreign data included *)

NextDrop ==
    \/ onDropNoData
    \/ \E id \in NodeIds, p \in Positions : onDrop(id, p)
    \/ \E d \in ForeignPayloads, p \in Positions : onDropForeign(d, p)
    \/ \E id \in NodeIds \cup {"undefined-1"} : onNodeClick(id)
    \/ onPaneClick

SpecDrop == Init /\ [][NextDrop]_vars

-----------------------------------------------------------------------------
(* The catalog lookups on their own: each is called with listed and unlisted *)
(* type strings                                                             *)

LookupTypes == NodeTypes \cup {"custom", "LLM", ""}

\* one call of getNodeDefaults, getNodeDisplayName, isValidConnection or
\* validateNodeConnection; none of them has a throw statement
catalogLookup(fn, type, targetType) ==
    /\ lookup' = <<[fn |-> fn, type |-> type, targetType |-> targetType,
                    returned |->
                      CASE fn = "getNodeDefaults" -> getNodeDefaults(type)
                        [] fn = "getNodeDisplayName" -> getNodeDisplayName(type)
                        [] fn = "isValidConnection" -> isValidConnection(type, targetType)
                        [] fn = "validateNodeConnection" ->
                              validateNodeConnection(type, targetType)]>>
    /\ lastOp' = "catalogLookup"
    /\ thrown' = "none"
    /\ UNCHANGED <<storeVars, canvasVars, vvars, inflight, panelNodeData>>
    /\ rendered' = batchedRender(nodes, edges, nodes', edges')

NextCatalog ==
    \/ \E type \in LookupTypes : catalogLookup("getNodeDefaults", type, "")
    \/ \E type \in LookupTypes : catalogLookup("getNodeDisplayName", type, "")
    \/ \E type \in LookupTypes, targetType \in LookupTypes :
            catalogLookup("isValidConnection", type, targetType)
    \/ \E type \in LookupTypes, targetType \in LookupTypes :
            catalogLookup("validateNodeConnection", type, targetType)

SpecCatalog == Init /\ [][NextCatalog]_vars

-----------------------------------------------------------------------------
(* The graph operations of useWorkflow, called by a client of the hook *)

NextHook ==
    \/ \E node \in NewNodes : addNode(node)
    \/ \E id \in NodeIds, u \in Patches : updateNode(id, u)
    \/ \E id \in NodeIds : removeNode(id)
    \/ \E edge \in NewEdges : addEdge(edge)
    \/ \E id \in EdgeIds : removeEdge(id)
    \/ \E w \in LoadableWorkflows : loadWorkflow(w)
    \/ \E sel \in {<<>>} \cup {<<nodes[i]>> : i \in DOMAIN nodes} : setSelectedNode(sel)

SpecHook == Init /\ [][NextHook]_vars

-----------------------------------------------------------------------------
(* ConfigurationPanel: the editor of the selected node's data.  Its handlers *)
(* are closures of one render: handleUpdate reads the nodeData of that       *)
(* render and App.handleNodeUpdate reads the nodes of that render, and both  *)
(* hand a value, not an updater, to their setters.                           *)

\* a knowledge base node with an uploaded file, as a stored workflow holds it
KnowledgeBaseData ==
    Spread(getNodeDefaults("knowledgeBase"),
           [embeddingModel |-> "text-embedding-3-large",
            fileName |-> "a.pdf", fileId |-> "f1"])

LLMData == Spread(getNodeDefaults("llm"), [model |-> "gpt-3.5-turbo"])

\* workflows the persistence gateway answers a fetch with, file included
PanelWorkflows ==
    { [nodes |-> <<MkNode("knowledgeBase-1", "knowledgeBase", 0, KnowledgeBaseData)>>,
       edges |-> <<>>],
      [nodes |-> <<MkNode("knowledgeBase-1", "knowledgeBase", 0, KnowledgeBaseData),
                   MkNode("llm-1", "llm", 0, LLMData)>>,
       edges |-> <<MkEdge("e1", "knowledgeBase-1", "llm-1", NoHandle, NoHandle)>>] }

PanelNodeIds == {"knowledgeBase-1", "llm-1"}

\* the fields the forms of the panel edit, by node type: <<key, value>>
PanelEdits(type) ==
    CASE type = "knowledgeBase" ->
            { <<"embeddingModel", "text-embedding-3-small">>,
              <<"embeddingModel", "text-embedding-3-large">> }
      [] type = "llm" -> { <<"model", "gpt-4">>, <<"model", "gpt-3.5-turbo">> }
      [] OTHER -> {}

\* handleUpdate(key, value) of the render whose local state is nodeData:
\* updatedData = {...nodeData, [key]: value}
updatedData(nodeData, key, value) == Spread(nodeData, (key :> value))

\* the setter calls of one event turn, in order: each call of handleUpdate
\* calls setNodeData(updatedData) and, through onUpdate, App.handleNodeUpdate,
\* which calls setNodes(nodes.map(...)) over the nodes of the render.  The
\* state after the turn is the value of the last call of each setter.
panelTurn(calls) ==
    LET node == selectedNode[1]
        datas == [i \in DOMAIN calls |->
                    updatedData(panelNodeData, calls[i][1], calls[i][2])]
        nodeLists == [i \in DOMAIN calls |->
                        updateNodeUpdater(nodes, node.id, [data |-> datas[i]])]
    IN  /\ panelNodeData' = datas[Len(calls)]
        /\ nodes' = nodeLists[Len(calls)]
        /\ reactNodes' = nodes'
        /\ thrown' = "none"
        /\ UNCHANGED <<edges, selectedNode, reactEdges, edgesShared, vvars, inflight, lookup>>
        /\ rendered' = batchedRender(nodes, edges, nodes', edges')

\* a change of one form field: onChange calls onUpdate(key, value) once
handleUpdate(key, value) ==
    /\ selectedNode # <<>>
    /\ <<key, value>> \in PanelEdits(selectedNode[1].type)
    /\ lastOp' = "handleUpdate"
    /\ panelTurn(<< <<key, value>> >>)

\* KnowledgeBaseConfig, the remove button shown while data.fileName is truthy:
\* onClick={() => { onUpdate('fileName', ''); onUpdate('fileId', ''); }}
removeFile ==
    /\ selectedNode # <<>>
    /\ selectedNode[1].type = "knowledgeBase"
    /\ Get(panelNodeData, "fileName") \notin {"", "undefined"}
    /\ lastOp' = "removeFile"
    /\ panelTurn(<< <<"fileName", "">>, <<"fileId", "">> >>)

NextPanel ==
    \/ \E w \in PanelWorkflows : loadWorkflow(w)
    \/ \E id \in PanelNodeIds : onNodeClick(id)
    \/ onPaneClick
    \/ onClose
    \/ \E type \in NodeTypes : \E e \in PanelEdits(type) : handleUpdate(e[1], e[2])
    \/ removeFile

SpecPanel == Init /\ [][NextPanel]_vars

-----------------------------------------------------------------------------
(* validateWorkflowConnections.  An error message is a record: its kind and *)
(* the values the message text is built from.                               *)

ErrEmpty == [kind |-> "Workflow must contain at least one node"]
ErrIsolated(labels) == [kind |-> "Isolated nodes detected", labels |-> labels]
ErrCycle == [kind |-> "Workflow contains circular dependencies"]
ErrEdge(edgeId) == [kind |-> "Invalid edge connection", edge |-> edgeId]
ErrConnection(sourceLabel, targetLabel) ==
    [kind |-> "Invalid connection", source |-> sourceLabel, target |-> targetLabel]

\* connectedNodes: every edge.source and edge.target
connectedNodes(es) ==
    {es[i].source : i \in DOMAIN es} \cup {es[i].target : i \in DOMAIN es}

\* nodes.filter(node => !connectedNodes.has(node.id)).map(n => n.data.label)
isolatedLabels(ns, es) ==
    LET isolated(n) == n.id \notin connectedNodes(es)
        isolatedNodes == SelectSeq(ns, isolated)
    IN  [i \in DOMAIN isolatedNodes |-> isolatedNodes[i].data.label]

\* a variant that also runs on a single node
isolatedCheck_SingleToo(ns, es) ==
    IF Len(isolatedLabels(ns, es)) > 0
    THEN <<ErrIsolated(isolatedLabels(ns, es))>>
    ELSE <<>>

\* the isolated-node check: only when nodes.length > 1
isolatedCheck(ns, es) ==
    IF Len(ns) > 1 /\ Len(isolatedLabels(ns, es)) > 0
    THEN <<ErrIsolated(isolatedLabels(ns, es))>>
    ELSE <<>>

\* adjacencyList[edge.source].push(edge.target) throws a TypeError when
\* edge.source is no key of adjacencyList, i.e. not the id of a node
hasCycleThrows(ns, es) == \E i \in DOMAIN es : es[i].source \notin Ids(ns)

\* adjacencyList[nodeId] || []
adjacencyList(ns, es, nodeId) ==
    IF nodeId \in Ids(ns)
    THEN LET from(e) == e.source = nodeId
             out == SelectSeq(es, from)
         IN  [i \in DOMAIN out |-> out[i].target]
    ELSE <<>>

RECURSIVE dfs(_, _, _, _), dfsNeighbors(_, _, _, _, _)

\* dfs(nodeId): st carries the visited set, the recursion stack and the result
dfs(ns, es, nodeId, st) ==
    dfsNeighbors(ns, es, nodeId, 1,
                 [visited |-> st.visited \cup {nodeId},
                  recursionStack |-> st.recursionStack \cup {nodeId},
                  found |-> FALSE])

\* the for-loop of dfs over adjacencyList[nodeId], from its i-th neighbour
dfsNeighbors(ns, es, nodeId, i, st) ==
    LET neighbors == adjacencyList(ns, es, nodeId)
    IN  IF i > Len(neighbors)
        THEN [st EXCEPT !.recursionStack = @ \ {nodeId}]
        ELSE IF neighbors[i] \notin st.visited
        THEN LET r == dfs(ns, es, neighbors[i], st)
             IN  IF r.found THEN r ELSE dfsNeighbors(ns, es, nodeId, i + 1, r)
        ELSE IF neighbors[i] \in st.recursionStack
        THEN [st EXCEPT !.found = TRUE]
        ELSE dfsNeighbors(ns, es, nodeId, i + 1, st)

RECURSIVE hasCycleFrom(_, _, _, _)

\* the loop `for (const node of nodes)` of hasCycle, from the i-th node
hasCycleFrom(ns, es, i, st) ==
    IF i > Len(ns) THEN FALSE
    ELSE IF ns[i].id \notin st.visited
    THEN LET r == dfs(ns, es, ns[i].id, st)
         IN  IF r.found THEN TRUE ELSE hasCycleFrom(ns, es, i + 1, r)
    ELSE hasCycleFrom(ns, es, i + 1, st)

\* hasCycle, where it returns
hasCycle(ns, es) ==
    hasCycleFrom(ns, es, 1, [visited |-> {}, recursionStack |-> {}, found |-> FALSE])

cycleCheck(ns, es) == IF hasCycle(ns, es) THEN <<ErrCycle>> ELSE <<>>

\* the body of edges.forEach for one edge
edgeCheck(ns, edge) ==
    LET sourceNode == FindById(ns, edge.source)
        targetNode == FindById(ns, edge.target)
    IN  IF sourceNode = <<>> \/ targetNode = <<>>
        THEN <<ErrEdge(edge.id)>>
        ELSE IF ~isValidConnection(sourceNode[1].type, targetNode[1].type)
        THEN <<ErrConnection(sourceNode[1].data.label, targetNode[1].data.label)>>
        ELSE <<>>

RECURSIVE edgesCheck(_, _, _)

\* edges.forEach(...): the errors of the edges from the i-th on, in order
edgesCheck(ns, es, i) ==
    IF i > Len(es) THEN <<>> ELSE edgeCheck(ns, es[i]) \o edgesCheck(ns, es, i + 1)

\* a variant whose empty-graph check does not return
validateWorkflowConnections_NoReturn(ns, es) ==
    LET first == IF Len(ns) = 0 THEN <<ErrEmpty>> ELSE <<>>
        checks == <<"empty">> \o (IF Len(ns) > 1 THEN <<"isolated">> ELSE <<>>)
    IN  IF hasCycleThrows(ns, es)
        THEN [outcome |-> "TypeError", isValid |-> FALSE, errors |-> <<>>,
              checks |-> checks \o <<"cycle">>]
        ELSE LET errors == first \o isolatedCheck(ns, es) \o cycleCheck(ns, es)
                           \o edgesCheck(ns, es, 1)
             IN  [outcome |-> "report", isValid |-> (Len(errors) = 0),
                  errors |-> errors, checks |-> checks \o <<"cycle", "connections">>]

\* the outcome of a call: a report {isValid, errors}, or the TypeError raised
\* in hasCycle.  `checks` lists the checks the call entered.
validateWorkflowConnections(ns, es) ==
    IF Len(ns) = 0
    THEN [outcome |-> "report", isValid |-> FALSE, errors |-> <<ErrEmpty>>,
          checks |-> <<"empty">>]
    ELSE IF hasCycleThrows(ns, es)
    THEN [outcome |-> "TypeError", isValid |-> FALSE, errors |-> <<>>,
          checks |-> <<"empty">> \o (IF Len(ns) > 1 THEN <<"isolated">> ELSE <<>>)
                     \o <<"cycle">>]
    ELSE LET errors == isolatedCheck(ns, es) \o cycleCheck(ns, es)
                       \o edgesCheck(ns, es, 1)
         IN  [outcome |-> "report", isValid |-> (Len(errors) = 0), errors |-> errors,
              checks |-> <<"empty">> \o (IF Len(ns) > 1 THEN <<"isolated">> ELSE <<>>)
                         \o <<"cycle", "connections">>]

-----------------------------------------------------------------------------
(* Saving.  App.handleSave validates and calls saveWorkflow, which sends the *)
(* update request; the request settles later with onSuccess or onError.     *)
(* onSuccess invalidates the ['workflow', workflowId] query, whose refetch  *)
(* answers with the workflow the gateway stored and runs the query's        *)
(* onSuccess.                                                               *)

MaxInFlight == 1

\* a variant that sends the nodes without the edges
saveWorkflow_NoEdges(workflowData, ns, es) ==
    Spread(workflowData, [nodes |-> ns, edges |-> <<>>])

\* saveWorkflow: { ...workflowData, nodes, edges }
saveWorkflow(workflowData, ns, es) ==
    Spread(workflowData, [nodes |-> ns, edges |-> es])

RemoveAt(s, i) == [k \in 1..(Len(s) - 1) |-> IF k < i THEN s[k] ELSE s[k + 1]]

\* App.handleSave: the validation result is only logged; a TypeError raised
\* by the validation ends the handler before saveWorkflow
handleSave ==
    LET validation == validateWorkflowConnections(Rendered.nodes, Rendered.edges)
        workflow == saveWorkflow([id |-> "demo-workflow"], Rendered.nodes, Rendered.edges)
    IN  /\ Len(inflight) < MaxInFlight
        /\ IF validation.outcome = "TypeError"
           THEN /\ thrown' = "TypeError"
                /\ inflight' = inflight
           ELSE /\ thrown' = "none"
                /\ inflight' = Append(inflight, [workflow |-> workflow, stage |-> "saving"])
        /\ lastOp' = "handleSave"
        /\ UNCHANGED <<storeVars, canvasVars, vvars, panelNodeData, lookup>>
        /\ rendered' = batchedRender(nodes, edges, nodes', edges')

\* updateWorkflowMutation.onError: toast.error
updateWorkflowOnError(i) ==
    /\ i \in DOMAIN inflight
    /\ inflight[i].stage = "saving"
    /\ inflight' = RemoveAt(inflight, i)
    /\ lastOp' = "updateWorkflowOnError"
    /\ thrown' = "none"
    /\ UNCHANGED <<storeVars, canvasVars, vvars, panelNodeData, lookup>>
    /\ rendered' = batchedRender(nodes, edges, nodes', edges')

\* updateWorkflowMutation.onSuccess: invalidateQueries(['workflow', workflowId])
updateWorkflowOnSuccess(i) ==
    /\ i \in DOMAIN inflight
    /\ inflight[i].stage = "saving"
    /\ inflight' = [inflight EXCEPT ![i].stage = "refetching"]
    /\ lastOp' = "updateWorkflowOnSuccess"
    /\ thrown' = "none"
    /\ UNCHANGED <<storeVars, canvasVars, vvars, panelNodeData, lookup>>
    /\ rendered' = batchedRender(nodes, edges, nodes', edges')

\* the refetch answers with the stored workflow: the query's onSuccess
refetchOnSuccess(i) ==
    /\ i \in DOMAIN inflight
    /\ inflight[i].stage = "refetching"
    /\ nodes' = inflight[i].workflow.nodes
    /\ edges' = inflight[i].workflow.edges
    /\ reactNodes' = nodes'
    /\ reactEdges' = edges'
    /\ edgesShared' = TRUE
    /\ inflight' = RemoveAt(inflight, i)
    /\ lastOp' = "refetchOnSuccess"
    /\ thrown' = "none"
    /\ UNCHANGED <<selectedNode, vvars, panelNodeData, lookup>>
    /\ rendered' = batchedRender(nodes, edges, nodes', edges')

NextSave ==
    \/ \E w \in LoadableWorkflows : loadWorkflow(w)
    \/ \E id \in NodeIds : onDrop(id, 0)
    \/ \E s \in NodeIds : \E t \in NodeIds \ {s} : onConnect(s, t)
    \/ handleSave
    \/ \E i \in 1..MaxInFlight : updateWorkflowOnError(i)
    \/ \E i \in 1..MaxInFlight : updateWorkflowOnSuccess(i)
    \/ \E i \in 1..MaxInFlight : refetchOnSuccess(i)

SpecSave == Init /\ [][NextSave]_vars

-----------------------------------------------------------------------------
(* The validator on its own: every workflow within the bounds is validated *)

MaxVNodes == 3
MaxVEdges == 3

VNodeIds == <<"n1", "n2", "n3", "n4", "n5">>
VLabels == <<"A", "B", "C", "D", "E">>
VEndpointOrder == <<"n1", "n2", "n3">>
VEndpoints == Range(VEndpointOrder)
VEdgeIds == <<"e1", "e2", "e3", "e4", "e5">>

\* node lists: k nodes with the first k ids, any types
VNodeLists ==
    UNION {{[i \in 1..k |-> MkNode(VNodeIds[i], ts[i], 0, [label |-> VLabels[i]])] :
                ts \in [1..k -> NodeTypes]} : k \in 0..MaxVNodes}

\* the connections between endpoint ids, in a fixed order
VConnections ==
    [k \in 1..(Len(VEndpointOrder) * Len(VEndpointOrder)) |->
        <<VEndpointOrder[((k - 1) \div Len(VEndpointOrder)) + 1],
          VEndpointOrder[((k - 1) % Len(VEndpointOrder)) + 1]>>]

\* edge lists: k edges, each between two endpoint ids that may or may not be
\* ids of nodes, no two edges joining the same pair, listed in the order of
\* VConnections
VEdgeLists ==
    UNION {{[i \in 1..k |-> MkEdge(VEdgeIds[i], VConnections[c[i]][1],
                                   VConnections[c[i]][2], NoHandle, NoHandle)] :
                c \in {f \in [1..k -> DOMAIN VConnections] :
                            \A i, j \in 1..k : i < j => f[i] < f[j]}} :
           k \in 0..MaxVEdges}

InitV ==
    /\ vnodes \in VNodeLists
    /\ vedges \in VEdgeLists
    /\ vresult = <<>>
    /\ rendered = batchedRender(<<>>, <<>>, <<>>, <<>>)
    /\ inflight = <<>>
    /\ panelNodeData = <<>>
    /\ lookup = <<>>
    /\ nodes = <<>>
    /\ edges = <<>>
    /\ selectedNode = <<>>
    /\ reactNodes = <<>>
    /\ reactEdges = <<>>
    /\ edgesShared = TRUE
    /\ lastOp = "init"
    /\ thrown = "none"

validate ==
    /\ vresult = <<>>
    /\ vresult' = <<validateWorkflowConnections(vnodes, vedges)>>
    /\ lastOp' = "validate"
    /\ thrown' = IF vresult'[1].outcome = "report" THEN "none" ELSE vresult'[1].outcome
    /\ UNCHANGED <<vnodes, vedges, storeVars, canvasVars, rendered, inflight, panelNodeData, lookup>>

NextV == validate

SpecV == InitV /\ [][NextV]_vars

-----------------------------------------------------------------------------
(* Properties of the graph operations (checked under SpecHook)              *)

Dangling(e, ns) == e.source \notin Ids(ns) \/ e.target \notin Ids(ns)

SameConnection(e, f) ==
    /\ e.source = f.source
    /\ e.sourceHandle = f.sourceHandle
    /\ e.target = f.target
    /\ e.targetHandle = f.targetHandle

\* r is s with exactly the elements at the indices in `gone` taken out, the
\* others in their order
IsRemovalOf(r, s, gone) ==
    LET kept == (DOMAIN s) \ gone
    IN  /\ Len(r) = Cardinality(kept)
        /\ \A k \in kept : r[Cardinality({m \in kept : m <= k})] = s[k]

\* C1: in every snapshot of the store every edge's source and target are ids
\* of nodes of that snapshot.
C1_NoDanglingEdge == \A i \in DOMAIN edges : ~Dangling(edges[i], nodes)

\* C2: removeNode(n) takes out the nodes with id n and exactly the edges
\* with source n or target n; every other node and edge stays, unchanged and
\* in the same relative order.
C2_RemoveNodeFrame ==
    [][\A n \in NodeIds :
          removeNode(n) =>
            /\ IsRemovalOf(nodes', nodes, {i \in DOMAIN nodes : nodes[i].id = n})
            /\ IsRemovalOf(edges', edges,
                           {i \in DOMAIN edges :
                               edges[i].source = n \/ edges[i].target = n})]_vars

\* a removeNode step has run and left another node and an edge between
\* remaining nodes behind
C2_Witness ==
    /\ lastOp = "removeNode"
    /\ Len(nodes) >= 1
    /\ Len(edges) >= 1
    /\ Cardinality(Ids(nodes)) = 1

\* C3: addNode(node) with node.id already present fails with DuplicateId
\* and leaves the snapshot unchanged; node ids are pairwise distinct in every
\* snapshot.
C3_AddNodeRejectsDuplicate ==
    /\ [](\A i, j \in DOMAIN nodes : nodes[i].id = nodes[j].id => i = j)
    /\ [][\A node \in NewNodes :
             (addNode(node) /\ node.id \in Ids(nodes)) =>
                /\ thrown' = "DuplicateId"
                /\ UNCHANGED storeVars]_vars

\* C4: addEdge(edge) with a source or target that is no node of the store
\* fails with DanglingEndpoint and adds no edge.
C4_AddEdgeRejectsDangling ==
    [][\A edge \in NewEdges :
          (addEdge(edge) /\ Dangling(edge, nodes)) =>
             /\ thrown' = "DanglingEndpoint"
             /\ edges' = edges]_vars

\* C5: no snapshot holds two edges with the same (source, sourceHandle,
\* target, targetHandle).
C5_NoDuplicateEdge ==
    \A i, j \in DOMAIN edges : SameConnection(edges[i], edges[j]) => i = j

\* C6: removeNode(id) and removeEdge(id) with an id that is not present
\* raise no error and leave nodes, edges and the selection unchanged.
C6_RemoveAbsentIsNoOp ==
    [][/\ \A n \in NodeIds :
             (removeNode(n) /\ n \notin Ids(nodes)) =>
                (thrown' = "none" /\ UNCHANGED storeVars)
       /\ \A id \in EdgeIds :
             (removeEdge(id) /\ id \notin Ids(edges)) =>
                (thrown' = "none" /\ UNCHANGED storeVars)]_vars

\* C7: updateNode with an id that no node has fails with NodeNotFound and
\* leaves the snapshot unchanged.
C7_UpdateAbsentFails ==
    [][\A id \in NodeIds, u \in Patches :
          (updateNode(id, u) /\ id \notin Ids(nodes)) =>
             /\ thrown' = "NodeNotFound"
             /\ UNCHANGED storeVars]_vars

-----------------------------------------------------------------------------
(* Properties of the validator (checked under SpecV)                        *)

Validated == vresult # <<>>
Result == vresult[1]

\* C9: with zero nodes and any edge list the call returns isValid = false
\* with exactly one error and enters no check after the empty-graph check.
C9_EmptyGraphShortCircuit ==
    (Validated /\ Len(vnodes) = 0) =>
        /\ Result.outcome = "report"
        /\ Result.isValid = FALSE
        /\ Len(Result.errors) = 1
        /\ Result.checks = <<"empty">>

\* a workflow with no node and three edges has been validated
C9_Witness == Validated /\ Len(vnodes) = 0 /\ Len(vedges) = MaxVEdges

\* the labels of the nodes that are neither source nor target of an edge
UntouchedLabels ==
    {vnodes[i].data.label :
        i \in {k \in DOMAIN vnodes :
                 \A e \in DOMAIN vedges :
                    vedges[e].source # vnodes[k].id /\ vedges[e].target # vnodes[k].id}}

\* the labels the report names as isolated
ReportedIsolated ==
    UNION {Range(Result.errors[i].labels) :
             i \in {k \in DOMAIN Result.errors :
                      Result.errors[k].kind = "Isolated nodes detected"}}

\* C10: with more than one node the call reports as isolated exactly the
\* nodes that are neither source nor target of an edge (and isValid is false
\* when there is one); with one node and no edge the result is isValid =
\* true with no errors.
C10_IsolatedNodes ==
    Validated =>
        /\ Len(vnodes) > 1 =>
              /\ Result.outcome = "report"
              /\ ReportedIsolated = UntouchedLabels
              /\ UntouchedLabels # {} => Result.isValid = FALSE
        /\ (Len(vnodes) = 1 /\ Len(vedges) = 0) =>
              /\ Result.outcome = "report"
              /\ Result.isValid = TRUE
              /\ Result.errors = <<>>

\* C10 on the calls that return: the same statement for the calls in which
\* hasCycle raises nothing
C10_IsolatedNodesWhenReturned ==
    (Validated /\ Result.outcome = "report") =>
        /\ Len(vnodes) > 1 =>
              /\ ReportedIsolated = UntouchedLabels
              /\ UntouchedLabels # {} => Result.isValid = FALSE
        /\ (Len(vnodes) = 1 /\ Len(vedges) = 0) =>
              /\ Result.isValid = TRUE
              /\ Result.errors = <<>>

\* the indices of the edges whose source and target are both ids of nodes
PresentEdges == {i \in DOMAIN vedges : ~Dangling(vedges[i], vnodes)}

\* the indices of the edges that lack their source or their target
DanglingEdges == (DOMAIN vedges) \ PresentEdges

VNode(id) == FindById(vnodes, id)[1]

\* the allow-list of the specification, by node type
AllowList ==
    [userQuery |-> {"llm", "knowledgeBase", "output"},
     knowledgeBase |-> {"llm", "output"},
     llm |-> {"output"},
     output |-> {}]

\* the edge joins two nodes and the target's type is in the source type's
\* allow-list
Forward(e) ==
    /\ ~Dangling(e, vnodes)
    /\ VNode(e.target).type \in AllowList[VNode(e.source).type]

RECURSIVE Closure(_)

\* the transitive closure of a set of pairs
Closure(R) ==
    LET step == R \cup {<<pq[1][1], pq[2][2]>> :
                            pq \in {x \in R \X R : x[1][2] = x[2][1]}}
    IN  IF step = R THEN R ELSE Closure(step)

\* the directed graph of the pairs has a cycle (a self-loop included)
Cyclic(R) == \E p \in Closure(R) : p[1] = p[2]

Pairs(idx) == {<<vedges[i].source, vedges[i].target>> : i \in idx}

\* how many errors of the report are of this kind
CountKind(kind) == Cardinality({i \in DOMAIN Result.errors : Result.errors[i].kind = kind})

\* C11: for a non-empty node list the call reports exactly one 'circular
\* dependencies' error if the edges that join two nodes form a directed cycle
\* and none if they do not.
C11_CycleCheck ==
    (Validated /\ Len(vnodes) > 0) =>
        /\ Result.outcome = "report"
        /\ CountKind(ErrCycle.kind) = IF Cyclic(Pairs(PresentEdges)) THEN 1 ELSE 0

\* C11 on the calls that return
C11_CycleCheckWhenReturned ==
    (Validated /\ Len(vnodes) > 0 /\ Result.outcome = "report") =>
        CountKind(ErrCycle.kind) = IF Cyclic(Pairs(PresentEdges)) THEN 1 ELSE 0

\* the workflow is non-empty, has no isolated node (when it has more than one
\* node), every edge joins two nodes and is allowed by the types, and there is
\* no cycle
WellFormed ==
    /\ Len(vnodes) > 0
    /\ Len(vnodes) > 1 => UntouchedLabels = {}
    /\ DanglingEdges = {}
    /\ \A i \in DOMAIN vedges : Forward(vedges[i])
    /\ ~Cyclic(Pairs(DOMAIN vedges))

\* C12: the call returns isValid = true with no errors exactly when the
\* workflow is well-formed, and in a report isValid is true iff errors is
\* empty.
C12_ValidIffWellFormed ==
    Validated =>
        /\ (Result.outcome = "report" /\ Result.isValid /\ Result.errors = <<>>)
              <=> WellFormed
        /\ Result.outcome = "report" => (Result.isValid <=> Result.errors = <<>>)

\* the chain userQuery -> llm -> output has been validated and found valid
C12_Witness ==
    /\ Validated
    /\ [i \in DOMAIN vnodes |-> vnodes[i].type] = <<"userQuery", "llm", "output">>
    /\ Pairs(DOMAIN vedges) = {<<"n1", "n2">>, <<"n2", "n3">>}
    /\ Result.isValid

\* the report names the two labels of the edge in an 'Invalid connection' error
ReportsConnection(e) ==
    \E i \in DOMAIN Result.errors :
        Result.errors[i] = ErrConnection(VNode(e.source).data.label,
                                         VNode(e.target).data.label)

\* C13: for every edge that joins two nodes with the target's type outside
\* the allow-list of the source's type, the call reports a violation naming
\* both labels and isValid is false.
C13_TypeCompatibility ==
    Validated =>
        \A i \in PresentEdges :
            ~Forward(vedges[i]) =>
                /\ Result.outcome = "report"
                /\ ReportsConnection(vedges[i])
                /\ Result.isValid = FALSE

\* C13 on the calls that return
C13_TypeCompatibilityWhenReturned ==
    (Validated /\ Result.outcome = "report") =>
        \A i \in PresentEdges :
            ~Forward(vedges[i]) =>
                (ReportsConnection(vedges[i]) /\ Result.isValid = FALSE)

\* C14: in a workflow with a node, for every edge that lacks its source or
\* its target the call still returns a report, the report names the edge's id, and the edge adds
\* nothing to the connection errors and the cycle error.
C14_DanglingEdgeReported ==
    (Validated /\ Len(vnodes) > 0) =>
        \A i \in DanglingEdges :
            /\ Result.outcome = "report"
            /\ \E k \in DOMAIN Result.errors : Result.errors[k] = ErrEdge(vedges[i].id)
            /\ CountKind("Invalid connection") =
                  Cardinality({j \in PresentEdges : ~Forward(vedges[j])})
            /\ CountKind(ErrCycle.kind) = IF Cyclic(Pairs(PresentEdges)) THEN 1 ELSE 0

\* C14 for the edges that lack only their target, in workflows where every
\* edge has its source
C14_DanglingTargetReported ==
    (Validated /\ Len(vnodes) > 0
               /\ \A i \in DOMAIN vedges : vedges[i].source \in Ids(vnodes)) =>
        \A i \in DanglingEdges :
            /\ Result.outcome = "report"
            /\ \E k \in DOMAIN Result.errors : Result.errors[k] = ErrEdge(vedges[i].id)
            /\ CountKind("Invalid connection") =
                  Cardinality({j \in PresentEdges : ~Forward(vedges[j])})
            /\ CountKind(ErrCycle.kind) = IF Cyclic(Pairs(PresentEdges)) THEN 1 ELSE 0

\* the node types, and a type the tables do not list
TypesAndUnknown == NodeTypes \cup {"custom"}

\* C15: the table is userQuery -> {llm, knowledgeBase, output}, knowledgeBase
\* -> {llm, output}, llm -> {output}, output -> {}; isValidConnection and
\* validateNodeConnection agree on every pair of types; and a report holds an
\* 'Invalid connection' error for an edge between two nodes exactly when the
\* table does not allow it.
C15_AllowListIsTheTable ==
    /\ \A s \in NodeTypes : validConnections(s) = AllowList[s]
    /\ \A s, t \in TypesAndUnknown :
          isValidConnection(s, t) = validateNodeConnection(s, t)
    /\ (Validated /\ Result.outcome = "report" /\ Len(vnodes) > 0) =>
          \A i \in PresentEdges :
              ReportsConnection(vedges[i]) <=>
                 ~validateNodeConnection(VNode(vedges[i].source).type,
                                         VNode(vedges[i].target).type)

\* a report on a workflow with an allowed edge and a disallowed edge, both
\* between nodes
C15_Witness ==
    /\ Validated
    /\ Result.outcome = "report"
    /\ \E i, j \in PresentEdges :
          /\ Forward(vedges[i])
          /\ ~Forward(vedges[j])
          /\ ReportsConnection(vedges[j])

\* the edge joins two nodes and isValidConnection allows it
ForwardByTypes(e) ==
    /\ ~Dangling(e, vnodes)
    /\ isValidConnection(VNode(e.source).type, VNode(e.target).type)

\* C16: the edges that are forward per the allow-list form no directed cycle;
\* a workflow whose edges all join nodes and are all allowed is never
\* reported as having circular dependencies.
C16_ForwardEdgesAcyclic ==
    /\ ~Cyclic(Pairs({i \in DOMAIN vedges : ForwardByTypes(vedges[i])}))
    /\ (Validated /\ Len(vnodes) > 0
                  /\ \A i \in DOMAIN vedges : ForwardByTypes(vedges[i])) =>
          /\ Result.outcome = "report"
          /\ CountKind(ErrCycle.kind) = 0

\* a workflow with three allowed edges between its nodes has been validated
C16_Witness ==
    /\ Validated
    /\ Len(vedges) = 3
    /\ \A i \in DOMAIN vedges : ForwardByTypes(vedges[i])
    /\ CountKind(ErrCycle.kind) = 0

-----------------------------------------------------------------------------
(* Properties of saving, loading and rendering                              *)

\* C17: every workflow a save request carries passes the validation:
\* isValid is true for its nodes and edges.
C17_SavedWorkflowIsValid ==
    \A i \in DOMAIN inflight :
        LET validation == validateWorkflowConnections(inflight[i].workflow.nodes,
                                                      inflight[i].workflow.edges)
        IN  validation.outcome = "report" /\ validation.isValid

\* C18: a save that fails leaves nodes, edges and the selection as they
\* were; after the failure a save can be issued, and a save that is issued
\* carries the nodes and edges of the store.
C18_FailedSaveKeepsGraph ==
    /\ [][\A i \in 1..MaxInFlight :
             updateWorkflowOnError(i) => UNCHANGED storeVars]_vars
    /\ [](lastOp = "updateWorkflowOnError" => ENABLED handleSave)
    /\ [][handleSave =>
             /\ Len(inflight') = Len(inflight) + 1
             /\ inflight'[Len(inflight')].workflow.nodes = nodes
             /\ inflight'[Len(inflight')].workflow.edges = edges]_vars

\* a save of a two-node workflow with an edge has failed
C18_Witness ==
    /\ lastOp = "updateWorkflowOnError"
    /\ Len(nodes) = 2
    /\ Len(edges) >= 1
    /\ inflight = <<>>

\* C19: a load puts the workflow's nodes and edges into the store as they
\* are and runs no validation; validating the store after it gives the
\* outcome of validating the workflow that was loaded.
C19_LoadThenValidate ==
    [][\A w \in LoadableWorkflows :
          loadWorkflow(w) =>
            /\ nodes' = w.nodes
            /\ edges' = w.edges
            /\ vresult' = vresult
            /\ validateWorkflowConnections(rendered'[Len(rendered')].nodes,
                                           rendered'[Len(rendered')].edges)
                  = validateWorkflowConnections(w.nodes, w.edges)]_vars

\* a workflow that the validation rejects has been loaded over another graph
C19_Witness ==
    /\ lastOp = "loadWorkflow"
    /\ Len(edges) = 1
    /\ ~validateWorkflowConnections(nodes, edges).isValid
    /\ Len(validateWorkflowConnections(nodes, edges).errors) >= 1

-----------------------------------------------------------------------------
(* Properties of the canvas gestures                                        *)

\* C21: a drop whose payload is missing or malformed raises no error,
\* creates no node and leaves the surface and the store unchanged.
C21_BadDropIsIgnored ==
    [][(\/ onDropNoData
        \/ \E d \in ForeignPayloads, p \in Positions : onDropForeign(d, p)) =>
          /\ thrown' = "none"
          /\ UNCHANGED <<storeVars, canvasVars>>]_vars

\* C21 for a drop without 'application/json' data
C21_MissingDropIsIgnored ==
    [][onDropNoData => (thrown' = "none" /\ UNCHANGED <<storeVars, canvasVars>>)]_vars

\* C22: a lookup of the defaults, the display name or the allowed targets of
\* a type outside {userQuery, llm, knowledgeBase, output} signals
\* UnknownNodeType.
C22_UnknownTypeIsAnError ==
    (lookup # <<>> /\ lookup[1].type \notin NodeTypes) => thrown = "UnknownNodeType"

\* what the lookups do for such a type: they return a fallback, the
\* 'Unknown Node' defaults, the type string itself, and false
C22_UnknownTypeFallsBack ==
    (lookup # <<>> /\ lookup[1].type \notin NodeTypes) =>
        /\ thrown = "none"
        /\ lookup[1].returned =
              CASE lookup[1].fn = "getNodeDefaults" ->
                      [label |-> "Unknown Node", description |-> "Unknown node type"]
                [] lookup[1].fn = "getNodeDisplayName" -> lookup[1].type
                [] OTHER -> FALSE

\* the store has an edge from s to t
Joined(es, s, t) == \E i \in DOMAIN es : es[i].source = s /\ es[i].target = t

\* the types of the two nodes are not in the allow-list relation
Disallowed(ns, s, t) ==
    ~isValidConnection(FindById(ns, s)[1].type, FindById(ns, t)[1].type)

\* C23: a connect gesture between two nodes puts the edge on the surface and
\* into the store whether or not the allow-list permits the pair, raises
\* nothing and runs no validation; a validation of the store afterwards
\* reports a disallowed pair as an invalid connection.
C23_ConnectIgnoresLegality ==
    /\ [][lastOp' = "onConnect" => \A s, t \in NodeIds :
            onConnect(s, t) =>
                /\ Joined(edges', s, t)
                /\ Joined(reactEdges', s, t)
                /\ thrown' = "none"
                /\ vresult' = vresult]_vars
    /\ [](lastOp = "onConnect" =>
            \A i \in DOMAIN edges :
                LET s == edges[i].source
                    t == edges[i].target
                IN  (s \in Ids(nodes) /\ t \in Ids(nodes) /\ Disallowed(nodes, s, t)) =>
                        LET validation == validateWorkflowConnections(nodes, edges)
                        IN  /\ validation.outcome = "report"
                            /\ validation.isValid = FALSE
                            /\ \E k \in DOMAIN validation.errors :
                                  validation.errors[k] =
                                     ErrConnection(FindById(nodes, s)[1].data.label,
                                                   FindById(nodes, t)[1].data.label))

\* a connect gesture has joined the output node to the llm node
C23_Witness ==
    /\ lastOp = "onConnect"
    /\ Joined(edges, "output-1", "llm-1")
    /\ Joined(reactEdges, "output-1", "llm-1")

\* C24: the selection is one optional node; a click on a node makes that
\* node the selection, a click on the pane clears it, and no other step
\* selects a node (closing the configuration panel clears the selection).
C24_SingleSelection ==
    /\ [](Len(selectedNode) <= 1)
    /\ [][/\ \A id \in NodeIds :
               onNodeClick(id) => (selectedNode' # <<>> /\ selectedNode'[1].id = id)
          /\ onPaneClick => selectedNode' = <<>>
          /\ selectedNode' # selectedNode =>
               IF selectedNode' = <<>>
               THEN lastOp' \in {"onNodeClick", "onPaneClick", "onClose"}
               ELSE lastOp' = "onNodeClick"]_vars

\* a click has selected the second of two nodes
C24_Witness ==
    /\ lastOp = "onNodeClick"
    /\ Len(nodes) = 2
    /\ selectedNode # <<>>
    /\ selectedNode[1].id = nodes[2].id

\* C25: once a load or a gesture and the updates it sets off are over, the
\* surface's nodes and edges equal the store's.
C25_SurfaceEqualsStore ==
    /\ reactNodes = nodes
    /\ reactEdges = edges

\* C25 for the nodes alone
C25_SurfaceNodesEqualStore == reactNodes = nodes

\* C26: after a drag of a node the store holds that node at the position of
\* the gesture, with its id, type and data as before; the other nodes and
\* the edges are unchanged and no validation has run.
C26_DragUpdatesPosition ==
    [][\A c \in {x \in NodeChanges : x.type = "position"} :
          handleNodesChange(c) =>
            /\ Len(nodes') = Len(nodes)
            /\ \A i \in DOMAIN nodes :
                  IF nodes[i].id = c.id
                  THEN nodes'[i] = Spread(nodes[i], [position |-> c.position])
                  ELSE nodes'[i] = nodes[i]
            /\ edges' = edges
            /\ vresult' = vresult]_vars

\* what a drag leaves behind: the store's nodes and edges as they were, and
\* the surface showing the store's nodes again
C26_DragLeavesStore ==
    [][\A c \in {x \in NodeChanges : x.type = "position"} :
          handleNodesChange(c) =>
            (nodes' = nodes /\ edges' = edges /\ reactNodes' = nodes)]_vars

\* the place of an error's check in the specified order of checks
SpecifiedRank(kind) ==
    CASE kind = "Isolated nodes detected" -> 1
      [] kind = "Invalid edge connection" -> 2
      [] kind = "Invalid connection" -> 3
      [] kind = ErrCycle.kind -> 4
      [] OTHER -> 0

\* the place of an error's check in validateWorkflowConnections
CodeRank(kind) ==
    CASE kind = "Isolated nodes detected" -> 1
      [] kind = ErrCycle.kind -> 2
      [] kind = "Invalid edge connection" -> 3
      [] kind = "Invalid connection" -> 3
      [] OTHER -> 0

\* C27: in a report the isolated-node error comes first, then the
\* dangling-edge errors, then the type-compatibility errors, and the
\* circular-dependency error last.
C27_ErrorOrder ==
    (Validated /\ Result.outcome = "report") =>
        \A i, j \in DOMAIN Result.errors :
            i < j => SpecifiedRank(Result.errors[i].kind)
                        <= SpecifiedRank(Result.errors[j].kind)

\* the order of the code: the isolated-node error, the circular-dependency
\* error, then one error per offending edge in the order of the edges
C27_ErrorOrderOfTheCode ==
    (Validated /\ Result.outcome = "report") =>
        \A i, j \in DOMAIN Result.errors :
            i < j => CodeRank(Result.errors[i].kind) <= CodeRank(Result.errors[j].kind)

\* C28: the selected node is null or has the id of a node of the store.
C28_SelectionIsPresent ==
    selectedNode = <<>> \/ selectedNode[1].id \in Ids(nodes)

\* what the code keeps: a selection made by a click names a node that is in
\* the store at the time of the click
C28_ClickSelectsPresentNode ==
    [][\A id \in NodeIds : onNodeClick(id) =>
            /\ selectedNode' # <<>>
            /\ selectedNode'[1].id \in Ids(nodes')]_vars

\* C29: the two updates of the remove-file action, made in one event turn,
\* both take effect: after the turn the node's fileName and fileId are both
\* empty in the store.
C29_BothUpdatesTakeEffect ==
    [][(removeFile /\ selectedNode[1].id \in Ids(nodes)) =>
            LET n == FindById(nodes', selectedNode[1].id)[1]
            IN  n.data.fileName = "" /\ n.data.fileId = ""]_vars

\* what the code does: the second update is computed from the data of the
\* render, so it alone reaches the store and the panel: fileId is emptied
\* and fileName is as it was
C29_LastUpdateWins ==
    [][(removeFile /\ selectedNode[1].id \in Ids(nodes)) =>
            LET n == FindById(nodes', selectedNode[1].id)[1]
            IN  /\ n.data = Spread(panelNodeData, [fileId |-> ""])
                /\ n.data.fileName = panelNodeData.fileName
                /\ panelNodeData' = n.data]_vars

\* C30: the refetch that follows a successful save loses no edit made since
\* the save was issued: every node and every edge of the store before the
\* refetch replaces the graph is in the store after it.
C30_RefetchKeepsLaterEdits ==
    [][\A i \in 1..MaxInFlight : refetchOnSuccess(i) =>
            /\ Range(nodes) \subseteq Range(nodes')
            /\ Range(edges) \subseteq Range(edges')]_vars

====
